---- MODULE Spec2Model ----
(***************************************************************************)
(* Timer subsystem of the bare-steel kernel.                               *)
(*                                                                         *)
(* Two implementations of the awaitable timer are modelled, selected by    *)
(* the variable impl:                                                      *)
(*   "flag"   - src/task/timer.rs      (READY phase flags)                 *)
(*   "parity" - src/task/timer/mod.rs  (lsb of TIMER, plus sleep)          *)
(*                                                                         *)
(* The kernel runs on one core.  Task code is preempted by the timer       *)
(* interrupt at any instruction boundary; the interrupt handler runs to    *)
(* completion (interrupt gate, interrupts disabled), so set_timer is one   *)
(* step, and every shared-memory access of Timer::poll is a step of its    *)
(* own: register, readiness read, load of TIMER.                           *)
(*                                                                         *)
(* Further specifications look at one mechanism each: SpecPanic (the       *)
(* assertion of sleep and the bounds check of WAKER[id]), SpecIrq          *)
(* (set_timer statement by statement), SpecLock (the WRITER spin lock and  *)
(* the interrupt flag), SpecLive (progress of a waiting task) and SpecExec *)
(* (the run loop of the executor with its idle sequence).                  *)
(*                                                                         *)
(* SpecVga and SpecText model the VGA text writer of vga/text/writer.rs    *)
(* (escape sequences, wrapping, scrolling), one step for every call of     *)
(* write_str; SpecPit models the programming of the 8253 interval timer    *)
(* in task/timer/pit.rs.                                                   *)
(***************************************************************************)
EXTENDS Integers, Sequences, FiniteSets, TLC

\* ---------------------------------------------------------------- bounds
MaxTimer == 4        \* largest counter the interrupt supplies
MaxStep == 2         \* largest increase between two supplied counters
NumTasks == 2        \* spawned tasks
MaxTicks == 5        \* largest `ticks` argument of sleep
QueueCap == 3        \* capacity of the executor's ready queue
MaxCalls == 2        \* VGA calls task context makes
CounterBits == 2     \* bits of the counter kept where it runs for ever
MaxPrints == 2       \* calls of the Writer where escape sequences are printed
MaxLines == 4        \* calls of the Writer where plain text is printed
MaxSets == 2         \* calls that program the interval timer
MaxPolls == 3        \* polls of the TimerStream one task makes

\* ------------------------------------------------------------- constants
MAX_TIMERS == 8

None == 0
Tasks == 1..NumTasks
Slots == 0..(MAX_TIMERS - 1)

VARIABLES
    impl,        \* "flag" (task/timer.rs) or "parity" (task/timer/mod.rs)
    TIMER,       \* static TIMER: AtomicU64
    READY,       \* static READY: [AtomicBool; 2]   (flag implementation)
    WAKER,       \* static WAKER: [AtomicWaker; MAX_TIMERS]; None = empty
    queue,       \* executor's ready queue of task ids
    running,     \* task being polled by the executor, or None
    pc,          \* per task: "new", "body", "reg", "read", "load", "wait", "done",
                 \*           "panic"
    fut,         \* per task: the Timer future it awaits, "Tick" or "Tock"
    id,          \* per task: the timer slot passed to the task
    prog,        \* per task: "loop" (display_timer) or "sleep" or "none"
    ticks,       \* per task: the ticks argument of sleep
    n,           \* per task: completed iterations of sleep's for loop
    timer,       \* per task: sleep's local `timer`
    sink,        \* values written by finished sleep tasks
    \* history variables
    supplied,    \* counters supplied to set_timer, in order
    wakes,       \* per task: invocations of its waker since it last registered
    sets,        \* per task: set_timer calls since it last registered
    resolved,    \* per task: <<phase, value>> of its last resolved Timer
    awaits,      \* per sleep task: phases of the Timer futures resolved so far
    suspensions, \* per sleep task: polls that returned Pending
    started,     \* per sleep task: <<>> or <<calls, counter>> at the first poll
    lost,        \* per task: a wake since it last registered hit a full queue
    clean,       \* every set_timer so far found every live task suspended
    \* processor, executor run loop, interrupt handler, WRITER lock
    ints,        \* interrupt flag of the processor: TRUE = enabled
    halted,      \* the processor sits in hlt
    epc,         \* executor run loop: "drain", "cli", "check", "sleep", "halted"
    cap,         \* capacity of the ready queue
    irq,         \* set_timer in execution: [pc, c, i, stores, attempts]
    once,        \* timer_.rs: the OnceCell TIMER is initialised
    wlock,       \* holder of the WRITER spin lock: "free", "task", "irq"
    vop,         \* VGA call of task context: [op, pc, saved], and the number
                 \* of calls it has completed
    \* VGA text writer (vga/text/writer.rs) and interval timer (task/timer/pit.rs)
    build,       \* "debug" (overflow checks) or "release" (wrapping arithmetic)
    writer,      \* static WRITER: [row, column, attr, buffer], whether a
                 \* method of it has panicked, and of its last call the
                 \* cells write_screen stored, the calls of new_line and
                 \* the locals state and arg_start of write_string
    wlog,        \* the strings passed to write_str so far, the number of
                 \* calls of the Writer, and whether the screen was cleared
    pit          \* bytes written to the ports of the 8253, in order, and
                 \* whether set_frequency has panicked

vars == <<impl, TIMER, READY, WAKER, queue, running, pc, fut, id, prog, ticks,
          n, timer, sink, supplied, wakes, sets, resolved, awaits,
          suspensions, started, lost, clean,
          ints, halted, epc, cap, irq, once, wlock, vop,
          build, writer, wlog, pit>>

io == <<build, writer, wlog, pit>>

ext == <<ints, halted, epc, cap, io, irq, once, wlock, vop>>

IrqIdle == [pc |-> "idle", c |-> 0, i |-> 0, stores |-> 0, attempts |-> 0]
NoOp == [op |-> "none", pc |-> "none", saved |-> FALSE, done |-> 0]

\* --------------------------------------------------------- timer store
\* a store of the phase index in place of the counter
store_index(old, new) == new % 2

\* TIMER.store(timer, Relaxed)
store(old, new) == new

xor1(index) == IF index % 2 = 0 THEN index + 1 ELSE index - 1

\* the opposite flag is not cleared
set_ready_noclear(R, index) == [R EXCEPT ![index] = TRUE]

\* READY[index].store(true); READY[index ^ 1].store(false)
set_ready(R, index) ==
    LET R1 == [R EXCEPT ![index] = TRUE]
    IN  [R1 EXCEPT ![xor1(index)] = FALSE]

\* a poll that does not register
register_none(W, slotid, waker) == W

\* AtomicWaker::register: the slot holds the latest waker
register(W, slotid, waker) == [W EXCEPT ![slotid] = waker]

\* a wake by reference, which leaves the waker in the slot
wake_keep(W, slotid) == <<W, W[slotid]>>

\* AtomicWaker::wake: take the waker out of the slot and invoke it.
\* Result: <<registry afterwards, waker invoked (None when the slot was empty)>>
wake(W, slotid) == <<[W EXCEPT ![slotid] = None], W[slotid]>>

\* a push that ignores the capacity
wake_task_grow(q, t) ==
    IF t = None THEN q ELSE Append(q, t)

\* TaskWaker::wake: push the task id; a push on a full queue is dropped
wake_task(q, t) ==
    IF t = None THEN q
    ELSE IF Len(q) < cap THEN Append(q, t) ELSE q

\* a queue that hands out its newest entry
pop_last(q) == <<q[Len(q)], SubSeq(q, 1, Len(q) - 1)>>

\* ReadyQueue pop: the oldest entry. Result: <<id, queue afterwards>>
pop(q) == <<Head(q), Tail(q)>>

\* a table that never forgets a task
in_table_all(p) == TRUE

\* the task table holds the tasks that have not completed
in_table(p) == p # "done"

\* an idle check that leaves interrupts as they are
disable_noop(i) == i

\* interrupts::disable()
disable(i) == FALSE

\* a loop that stops one slot short
RECURSIVE wake_all_short(_, _, _, _)
wake_all_short(slotid, W, q, inv) ==
    IF slotid >= MAX_TIMERS - 1 THEN <<W, q, inv>>
    ELSE LET r == wake(W, slotid)
         IN  wake_all_short(slotid + 1, r[1], wake_task(q, r[2]),
                            IF r[2] = None THEN inv ELSE Append(inv, r[2]))

\* for id in 0..MAX_TIMERS { WAKER[id].wake(); }
\* Result: <<registry, ready queue, sequence of wakers invoked>>
RECURSIVE wake_all(_, _, _, _)
wake_all(slotid, W, q, inv) ==
    IF slotid >= MAX_TIMERS THEN <<W, q, inv>>
    ELSE LET r == wake(W, slotid)
         IN  wake_all(slotid + 1, r[1], wake_task(q, r[2]),
                      IF r[2] = None THEN inv ELSE Append(inv, r[2]))

Count(s, x) == Cardinality({k \in 1..Len(s) : s[k] = x})

\* ------------------------------------------------------------ Timer
\* the phase bits exchanged
get_id_swapped(tag, slotid) == <<IF tag = "Tick" THEN 0 ELSE 1, slotid>>

\* Timer::get_id / Timer::id : phase bit of the future, tick = 1, tock = 0
get_id(tag, slotid) == <<IF tag = "Tick" THEN 1 ELSE 0, slotid>>

\* TIMER.load() as u8 & 1
clock(T) == (T % 256) % 2

\* the parity where the counter is expected
load_clock(T) == clock(T)

\* Poll::Ready(TIMER.load(Relaxed))
load(T) == T

\* an index check that accepts one slot too many
in_bounds_incl(slotid) == slotid <= MAX_TIMERS

\* the bounds check of the index expression WAKER[id]
in_bounds(slotid) == slotid < MAX_TIMERS

\* a comparison with the sense inverted
is_ready_inverted(im, tag, slotid, R, T) ==
    LET t == get_id(tag, slotid)[1]
    IN  IF im = "flag" THEN ~R[t] ELSE t # clock(T)

\* the readiness read of Timer::poll, after the registration
is_ready(im, tag, slotid, R, T) ==
    LET t == get_id(tag, slotid)[1]
    IN  IF im = "flag" THEN R[t] ELSE t = clock(T)

\* half the ticks rounded up
hticks_up(tk) == (tk + 1) \div 2

\* one cycle too few
hticks_less(tk) == (tk - 1) \div 2

\* sleep: let hticks = ticks / 2
hticks(tk) == tk \div 2

\* an assertion that lets a single tick through
sleep_assert_one(tk) == tk >= 1

\* sleep: assert!(ticks >= 2)
sleep_assert(tk) == tk >= 2

\* ------------------------------------------- VGA text mode (vga/text)
BUFFER_HEIGHT == 25
BUFFER_WIDTH == 80

\* usize::MAX.  The model keeps 31 of the 64 bits: the Writer compares a
\* wrapped row or column with the buffer size and never computes with it.
USIZE_MAX == 2147483647

\* [x; k]
RECURSIVE Repeat(_, _)
Repeat(x, k) ==
    IF k = 0 THEN <<>>
    ELSE IF k = 1 THEN <<x>>
    ELSE Repeat(x, k \div 2) \o Repeat(x, k - (k \div 2))

\* bytes the Writer tells apart
ESC == 27       \* 0x1b
LF == 10        \* b'\n'
SEMI == 59      \* b';'
LBRACKET == 91  \* b'['
FINAL_H == 72   \* b'H'
FINAL_m == 109  \* b'm'

\* enum Color
Black == 0
LightGray == 7
White == 15

\* impl From<u8> for Color
Color(b) == IF b <= 15 THEN b ELSE Black

\* Color::from_ansi: Black, Red, Green, Yellow, Blue, Magenta, Cyan, White
AnsiColors == <<0, 4, 2, 14, 1, 5, 3, 15>>

from_ansi(b) == IF b <= 7 THEN AnsiColors[b + 1] ELSE Black

\* Attribute::new: (background as u8) << 4 | (foreground as u8)
Attribute(fg, bg) == ((bg * 16) % 256) + fg

attr_default == Attribute(LightGray, Black)

attr_error == Attribute(White, Black)

\* Attribute::background: (n as u8 >> 4).into()
background(a) == Color(a \div 16)

\* Attribute::foreground: (n as u8).into()
foreground(a) == Color(a)

\* struct Char { code, attr }
Char(code, at) == <<code, at>>

ANSI_ERROR == Char(13, attr_error)

\* `x - 1` on usize: an overflow check in a debug build, wrapping otherwise.
\* <<TRUE, _>> is the panic.
usize_dec(x, b) ==
    IF x >= 1 THEN <<FALSE, x - 1>>
    ELSE IF b = "debug" THEN <<TRUE, x>> ELSE <<FALSE, USIZE_MAX>>

\* Result<u8, ParseIntError>: Ok(n) is n, Err(_) is Err
Err == -1

RECURSIVE digits_value(_, _)
digits_value(str, acc) ==
    IF str = <<>> THEN acc
    ELSE IF str[1] \notin 48..57 \/ acc = Err THEN Err
    ELSE LET v == acc * 10 + (str[1] - 48)
         IN digits_value(Tail(str), IF v > 255 THEN Err ELSE v)

\* <u8 as FromStr>::from_str: an optional '+', then one or more digits,
\* value at most 255
parse(str) ==
    IF str = <<>> THEN Err
    ELSE IF str[1] = 43
         THEN (IF Len(str) = 1 THEN Err ELSE digits_value(Tail(str), 0))
         ELSE digits_value(str, 0)

\* split: args.split(delimiter).map(|s| s.parse()).collect()
RECURSIVE split(_, _)
split(args, delimiter) ==
    IF \E i \in 1..Len(args) : args[i] = delimiter
    THEN LET i == CHOOSE k \in 1..Len(args) :
                      /\ args[k] = delimiter
                      /\ \A j \in 1..(k - 1) : args[j] # delimiter
         IN <<parse(SubSeq(args, 1, i - 1))>>
                \o split(SubSeq(args, i + 1, Len(args)), delimiter)
    ELSE <<parse(args)>>

\* buffer.chars[row][col] is inside the array
in_buffer(r, c) == r < BUFFER_HEIGHT /\ c < BUFFER_WIDTH

panic(w) == [w EXCEPT !.panicked = TRUE]

\* Writer::clear_row
clear_row(w, r) ==
    IF w.panicked THEN w
    ELSE IF ~in_buffer(r, 0) THEN panic(w)
    ELSE [w EXCEPT !.buffer[r + 1] = Repeat(Char(32, w.attr), BUFFER_WIDTH)]

above_last_incl(r) == r < BUFFER_HEIGHT

\* the branch of new_line: a row is left below the cursor
above_last(r) == r < BUFFER_HEIGHT - 1

scroll_none(buf) == buf

\* the loop of new_line: every row from 1 on is copied to the row above
scroll(buf) == Tail(buf) \o <<buf[BUFFER_HEIGHT]>>

\* Writer::new_line
new_line(w) ==
    IF w.panicked THEN w
    ELSE LET v == [w EXCEPT !.newlines = @ + 1]
             u == IF above_last(v.row)
                  THEN [v EXCEPT !.row = @ + 1]
                  ELSE clear_row([v EXCEPT !.buffer = scroll(@)], v.row)
         IN IF u.panicked THEN u ELSE [u EXCEPT !.column = 0]

\* the test of write_screen: the cursor is past the end of the line
at_margin(c) == c >= BUFFER_WIDTH

\* Writer::write_screen
write_screen(w, ch) ==
    IF w.panicked THEN w
    ELSE LET v == IF at_margin(w.column) THEN new_line(w) ELSE w
         IN IF v.panicked THEN v
            ELSE IF ~in_buffer(v.row, v.column) THEN panic(v)
            ELSE [v EXCEPT !.buffer[v.row + 1][v.column + 1] = ch,
                           !.column = @ + 1,
                           !.stored = Append(@, <<v.row, v.column, ch>>)]

RECURSIVE clear_rows(_, _)
clear_rows(w, r) ==
    IF r >= BUFFER_HEIGHT THEN w ELSE clear_rows(clear_row(w, r), r + 1)

\* the code write_byte stores for a byte that is not a newline
glyph(byte) == IF byte \in 32..126 THEN byte ELSE 254

\* Writer::write_byte
write_byte(w, byte) ==
    IF byte = LF THEN new_line(w)
    ELSE write_screen(w, Char(glyph(byte), w.attr))

\* Writer::set_cursor_position
set_cursor_position(w, r, c, b) ==
    LET nr == usize_dec(r, b)
        nc == usize_dec(c, b)
    IN IF w.panicked THEN w
       ELSE IF nr[1] THEN panic(w)
       ELSE IF nc[1] THEN panic([w EXCEPT !.row = nr[2]])
       ELSE [w EXCEPT !.row = nr[2], !.column = nc[2]]

\* Writer::clear_screen
clear_screen(w, at, b) ==
    set_cursor_position(clear_rows([w EXCEPT !.attr = at], 0), 1, 1, b)

\* one code of write_sgr
sgr_code(w, code) ==
    IF w.panicked THEN w
    ELSE IF code \in 30..37
    THEN [w EXCEPT !.attr = Attribute(from_ansi(code - 30), background(@))]
    ELSE IF code \in 40..47
    THEN [w EXCEPT !.attr = Attribute(foreground(@), from_ansi(code - 40))]
    ELSE write_screen(w, ANSI_ERROR)

RECURSIVE sgr_codes(_, _)
sgr_codes(w, codes) ==
    IF codes = <<>> THEN w
    ELSE sgr_codes(sgr_code(w, Head(codes)), Tail(codes))

\* Writer::write_sgr
write_sgr(w, args) ==
    IF args = <<>> \/ args = <<48>>
    THEN [w EXCEPT !.attr = attr_default]
    ELSE sgr_codes(w, split(args, SEMI))

\* Writer::write_csi
write_csi(w, final, args, b) ==
    IF final = FINAL_m THEN write_sgr(w, args)
    ELSE IF final = FINAL_H
    THEN LET a == split(args, SEMI)
         IN IF Len(a) = 2 /\ a[1] # Err /\ a[2] # Err
            THEN set_cursor_position(w, a[1], a[2], b)
            ELSE write_screen(w, ANSI_ERROR)
    ELSE write_screen(w, ANSI_ERROR)

\* one iteration of the loop of Writer::write_string: byte i of s, with
\* the parser state in w.state and the index of the first parameter byte
\* in w.arg_start
step(w, s, i, b) ==
    IF w.panicked THEN w
    ELSE LET c == s[i]
         IN IF w.state = "Start" /\ c = ESC
            THEN [w EXCEPT !.state = "Esc"]
            ELSE IF w.state = "Start"
            THEN write_byte(w, c)
            ELSE IF w.state = "Esc" /\ c = LBRACKET
            THEN [w EXCEPT !.state = "Csi", !.arg_start = i + 1]
            ELSE IF w.state = "Csi" /\ c \in 32..63
            THEN w
            ELSE IF w.state = "Csi" /\ c \in 64..126
            THEN [write_csi(w, c, SubSeq(s, w.arg_start, i - 1), b)
                     EXCEPT !.state = "Start"]
            ELSE [write_screen(w, ANSI_ERROR) EXCEPT !.state = "Start"]

\* the loop of Writer::write_string from byte i on
RECURSIVE scan(_, _, _, _)
scan(w, s, i, b) ==
    IF i > Len(s) \/ w.panicked THEN w
    ELSE scan(step(w, s, i, b), s, i + 1, b)

\* Writer::write_string
write_string(w, s, b) ==
    scan([w EXCEPT !.stored = <<>>, !.newlines = 0,
                   !.state = "Start", !.arg_start = 1],
         s, 1, b)

\* the memory at 0xb8000 when WRITER is made holds what the boot screen left
\* there: a printable code in every cell.  buffer.chars[r][c] is
\* buffer[r + 1][c + 1].
RECURSIVE BootCells(_, _, _)
BootCells(r, lo, hi) ==
    IF lo > hi THEN <<>>
    ELSE IF lo = hi THEN <<Char(32 + ((r * 7 + lo) % 95), attr_default)>>
    ELSE BootCells(r, lo, (lo + hi) \div 2)
             \o BootCells(r, ((lo + hi) \div 2) + 1, hi)

RECURSIVE BootRows(_)
BootRows(r) ==
    IF r >= BUFFER_HEIGHT THEN <<>>
    ELSE <<BootCells(r, 0, BUFFER_WIDTH - 1)>> \o BootRows(r + 1)

\* lazy_static WRITER
WRITER0 ==
    [row |-> BUFFER_HEIGHT - 1,
     column |-> 0,
     attr |-> attr_default,
     buffer |-> BootRows(0),
     panicked |-> FALSE,
     stored |-> <<>>,
     newlines |-> 0,
     state |-> "Start",
     arg_start |-> 1]

\* nothing printed yet
NoLog == [inputs |-> <<>>, calls |-> 0, cleared |-> FALSE]

\* ---------------------------------------- 8253 timer (task/timer/pit.rs)
CLK_FREQ == 1193182

U16_MAX == 65535

\* Chan::CH0, CH1, CH2 as u16
Chans == 0..2

\* `as u8`
as_u8(x) == x % 256

try_into_wrapping(x) == <<TRUE, x % (U16_MAX + 1)>>

\* u16::try_from(x: u32): <<TRUE, x>> is Ok(x), <<FALSE, _>> is Err
try_into(x) == IF x <= U16_MAX THEN <<TRUE, x>> ELSE <<FALSE, 0>>

\* set_divider: the writes to the ports, in order, as <<port, byte>>
set_divider(ch, div) ==
    <<<<67, 52>>, <<64 + ch, as_u8(div)>>, <<64 + ch, as_u8(div \div 256)>>>>

\* set_frequency: <<panicked, writes to the ports>>
set_frequency(ch, freq) ==
    IF freq = 0 THEN <<TRUE, <<>>>>
    ELSE LET clk_div == try_into(CLK_FREQ \div freq)
         IN IF clk_div[1] THEN <<FALSE, set_divider(ch, clk_div[2])>>
            ELSE <<TRUE, <<>>>>

\* the 8253 before the kernel programs it
NoPit == [out |-> <<>>, panicked |-> FALSE, calls |-> 0, last |-> <<>>]

\* where the screen is not looked at, WRITER without its buffer
WRITER_OFF == [WRITER0 EXCEPT !.buffer = <<>>]

InitIo ==
    /\ build = "debug"
    /\ writer = WRITER_OFF
    /\ wlog = NoLog
    /\ pit = NoPit

\* ------------------------------------------------------------- Init
InitCommon ==
    /\ TIMER = 0
    /\ READY = [b \in 0..1 |-> FALSE]
    /\ WAKER = [s \in Slots |-> None]
    /\ running = None
    /\ fut = [t \in Tasks |-> "Tick"]
    /\ n = [t \in Tasks |-> 0]
    /\ timer = [t \in Tasks |-> 0]
    /\ sink = <<>>
    /\ supplied = <<>>
    /\ wakes = [t \in Tasks |-> 0]
    /\ sets = [t \in Tasks |-> 0]
    /\ resolved = [t \in Tasks |-> <<>>]
    /\ awaits = [t \in Tasks |-> <<>>]
    /\ suspensions = [t \in Tasks |-> 0]
    /\ started = [t \in Tasks |-> <<>>]
    /\ lost = [t \in Tasks |-> FALSE]
    /\ clean = TRUE
    /\ ints = TRUE
    /\ halted = FALSE
    /\ epc = "drain"
    /\ irq = IrqIdle
    /\ once = FALSE
    /\ wlock = "free"
    /\ vop = NoOp
    /\ InitIo

\* display_timer / system_timer tasks, one timer slot each
Init ==
    /\ InitCommon
    /\ cap = QueueCap
    /\ impl \in {"flag", "parity"}
    /\ prog = [t \in Tasks |-> "loop"]
    /\ ticks = [t \in Tasks |-> 0]
    /\ id \in {f \in [Tasks -> {0, 1, MAX_TIMERS - 1}] :
                  \A a, b \in Tasks : a < b => f[a] < f[b]}
    /\ pc = [t \in Tasks |-> "new"]
    /\ queue = [k \in 1..NumTasks |-> k]

\* one task: sleep(id, ticks) and then a write of the result to the sink
InitSleep ==
    /\ InitCommon
    /\ cap = QueueCap
    /\ impl = "parity"
    /\ prog = [t \in Tasks |-> IF t = 1 THEN "sleep" ELSE "none"]
    /\ \E tk \in 2..MaxTicks : ticks = [t \in Tasks |-> IF t = 1 THEN tk ELSE 0]
    /\ \E s \in {0, MAX_TIMERS - 1} : id = [t \in Tasks |-> IF t = 1 THEN s ELSE 0]
    /\ pc = [t \in Tasks |-> IF t = 1 THEN "new" ELSE "done"]
    /\ queue = <<1>>

\* ---------------------------------------------------------- actions
\* set_timer(c), with a counter larger than the last
set_timer(c) ==
    /\ c > TIMER
    /\ c <= TIMER + MaxStep
    /\ c <= MaxTimer
    /\ TIMER' = store(TIMER, c)
    /\ READY' = IF impl = "flag" THEN set_ready(READY, c % 2) ELSE READY
    /\ LET r == wake_all(0, WAKER, queue, <<>>)
       IN  /\ WAKER' = r[1]
           /\ queue' = r[2]
           /\ wakes' = [t \in Tasks |-> wakes[t] + Count(r[3], t)]
           /\ lost' = [t \in Tasks |->
                          lost[t] \/ (Count(r[2], t) < Count(queue, t) + Count(r[3], t))]
    /\ sets' = [t \in Tasks |-> IF pc[t] \in {"read", "load", "wait"}
                                THEN sets[t] + 1 ELSE sets[t]]
    /\ supplied' = Append(supplied, c)
    /\ clean' = (clean /\ \A t \in Tasks :
                    pc[t] = "done" \/ (pc[t] = "wait" /\ WAKER[id[t]] = t))
    /\ UNCHANGED <<impl, running, pc, fut, id, prog, ticks, n, timer, sink,
                   resolved, awaits, suspensions, started>>

\* The timer interrupt, which can preempt task code anywhere
SetTimer(c) ==
    /\ set_timer(c)
    /\ UNCHANGED ext

\* Executor::run: pop the next ready id and poll that task
ExecutorPoll ==
    /\ irq.pc = "idle"
    /\ ~halted
    /\ epc = "drain"
    /\ running = None
    /\ Len(queue) > 0
    /\ LET t == pop(queue)[1]
       IN  /\ queue' = pop(queue)[2]
           /\ IF ~in_table(pc[t])
              THEN UNCHANGED <<running, pc, started>>
              ELSE /\ running' = t
                   /\ pc' = [pc EXCEPT ![t] = IF pc[t] = "new" THEN "body" ELSE "reg"]
                   /\ started' = IF pc[t] = "new" /\ prog[t] = "sleep"
                                 THEN [started EXCEPT ![t] = <<Len(supplied), TIMER>>]
                                 ELSE started
    /\ UNCHANGED <<impl, TIMER, READY, WAKER, fut, id, prog, ticks, n, timer,
                   sink, supplied, wakes, sets, resolved, awaits, suspensions,
                   lost, clean, ext>>

\* Timer::poll, first access: WAKER[id].register(cx.waker())
Register(t) ==
    /\ irq.pc = "idle"
    /\ running = t
    /\ pc[t] = "reg"
    /\ IF in_bounds(get_id(fut[t], id[t])[2])
       THEN /\ WAKER' = register(WAKER, get_id(fut[t], id[t])[2], t)
            /\ wakes' = [wakes EXCEPT ![t] = 0]
            /\ sets' = [sets EXCEPT ![t] = 0]
            /\ lost' = [lost EXCEPT ![t] = FALSE]
            /\ pc' = [pc EXCEPT ![t] = "read"]
       ELSE \* index out of bounds: the kernel panics, nothing runs after it
            /\ pc' = [pc EXCEPT ![t] = "panic"]
            /\ UNCHANGED <<WAKER, wakes, sets, lost>>
    /\ UNCHANGED <<impl, TIMER, READY, queue, running, fut, id, prog, ticks, n,
                   timer, sink, supplied, resolved, awaits, suspensions, started,
                   clean, ext>>

\* Timer::poll, second access: the readiness read; Pending suspends the task
IsReady(t) ==
    /\ irq.pc = "idle"
    /\ running = t
    /\ pc[t] = "read"
    /\ IF is_ready(impl, fut[t], id[t], READY, TIMER)
       THEN /\ pc' = [pc EXCEPT ![t] = "load"]
            /\ UNCHANGED <<running, suspensions>>
       ELSE /\ pc' = [pc EXCEPT ![t] = "wait"]
            /\ running' = None
            /\ suspensions' = IF prog[t] = "sleep"
                              THEN [suspensions EXCEPT ![t] = @ + 1]
                              ELSE suspensions
    /\ UNCHANGED <<impl, TIMER, READY, WAKER, queue, fut, id, prog, ticks, n,
                   timer, sink, supplied, wakes, sets, resolved, awaits, started,
                   lost, clean, ext>>

\* The body of the task's async fn, up to its next await.
\* display_timer / system_timer: loop { Tick.await; Tock.await }
\* sleep: for _ in 0..hticks { Tick.await; timer = Tock.await } timer
\* and the caller of sleep writes the value returned to the sink
Body(t) ==
    /\ irq.pc = "idle"
    /\ running = t
    /\ pc[t] = "body"
    /\ IF prog[t] = "sleep" /\ n[t] = 0 /\ ~sleep_assert(ticks[t])
       THEN \* assertion failed: the kernel panics, nothing runs after it
            /\ pc' = [pc EXCEPT ![t] = "panic"]
            /\ UNCHANGED <<running, sink, fut>>
       ELSE IF prog[t] = "sleep" /\ ~(n[t] < hticks(ticks[t]))
       THEN /\ sink' = Append(sink, timer[t])
            /\ pc' = [pc EXCEPT ![t] = "done"]
            /\ running' = None
            /\ UNCHANGED fut
       ELSE /\ fut' = [fut EXCEPT ![t] = "Tick"]
            /\ pc' = [pc EXCEPT ![t] = "reg"]
            /\ UNCHANGED <<running, sink>>
    /\ UNCHANGED <<impl, TIMER, READY, WAKER, queue, id, prog, ticks, n, timer,
                   supplied, wakes, sets, resolved, awaits, suspensions, started,
                   lost, clean, ext>>

\* Timer::poll, third access: Poll::Ready(TIMER.load()); the value goes to
\* the awaiting body
LoadTimer(t) ==
    /\ irq.pc = "idle"
    /\ running = t
    /\ pc[t] = "load"
    /\ LET v == load(TIMER)
           ph == get_id(fut[t], id[t])[1]
       IN  /\ resolved' = [resolved EXCEPT ![t] = <<ph, v>>]
           /\ awaits' = IF prog[t] = "sleep"
                         THEN [awaits EXCEPT ![t] = Append(@, ph)]
                         ELSE awaits
           /\ IF fut[t] = "Tick"
              THEN \* Timer::Tick(id).await is followed by Timer::Tock(id).await
                   /\ fut' = [fut EXCEPT ![t] = "Tock"]
                   /\ pc' = [pc EXCEPT ![t] = "reg"]
                   /\ UNCHANGED <<n, timer>>
              ELSE \* timer = Timer::Tock(id).await ends one iteration
                   /\ pc' = [pc EXCEPT ![t] = "body"]
                   /\ timer' = [timer EXCEPT ![t] = IF prog[t] = "sleep" THEN v ELSE @]
                   /\ n' = [n EXCEPT ![t] = IF prog[t] = "sleep" THEN @ + 1 ELSE @]
                   /\ UNCHANGED fut
    /\ UNCHANGED <<impl, TIMER, READY, WAKER, queue, running, id, prog, ticks,
                   sink, supplied, wakes, sets, suspensions, started, lost, clean,
                   ext>>

Next ==
    \/ \E c \in 1..MaxTimer : SetTimer(c)
    \/ ExecutorPoll
    \/ \E t \in Tasks : Body(t)
    \/ \E t \in Tasks : Register(t)
    \/ \E t \in Tasks : IsReady(t)
    \/ \E t \in Tasks : LoadTimer(t)

Spec == Init /\ [][Next]_vars

SpecSleep == InitSleep /\ [][Next]_vars

\* ------------------------------------------------ SpecPanic
\* tasks whose slot can lie outside WAKER, and sleep with any tick count
InitPanic ==
    /\ InitCommon
    /\ cap = QueueCap
    /\ \/ /\ impl \in {"flag", "parity"}
          /\ prog = [t \in Tasks |-> "loop"]
          /\ ticks = [t \in Tasks |-> 0]
          /\ id \in {f \in [Tasks -> {0, MAX_TIMERS - 1, MAX_TIMERS, MAX_TIMERS + 1}] :
                        \A a, b \in Tasks : a < b => f[a] < f[b]}
          /\ pc = [t \in Tasks |-> "new"]
          /\ queue = [k \in 1..NumTasks |-> k]
       \/ /\ impl = "parity"
          /\ prog = [t \in Tasks |-> IF t = 1 THEN "sleep" ELSE "none"]
          /\ \E tk \in 0..2 : ticks = [t \in Tasks |-> IF t = 1 THEN tk ELSE 0]
          /\ \E s \in {0, MAX_TIMERS} : id = [t \in Tasks |-> IF t = 1 THEN s ELSE 0]
          /\ pc = [t \in Tasks |-> IF t = 1 THEN "new" ELSE "done"]
          /\ queue = <<1>>

SpecPanic == InitPanic /\ [][Next]_vars

\* ------------------------------------------------------------ claims
Phase(t) == get_id(fut[t], id[t])[1]
PhaseNow(t) == is_ready(impl, fut[t], id[t], READY, TIMER)
Calls(t) == Len(supplied) - started[t][1]

\* C1: no wakeup is lost.  Whenever a task is suspended because its poll for
\* phase P returned Pending and the current phase is now P, the waker that
\* poll registered has been invoked at least once since it was registered -
\* wherever set_timer preempted the poll.
C1_NoLostWakeup ==
    \A t \in Tasks : (pc[t] = "wait" /\ PhaseNow(t)) => wakes[t] >= 1

\* a task whose poll was preempted between registration and readiness read,
\* returned Pending, and whose phase arrived afterwards
C1_Witness ==
    \E t \in Tasks : pc[t] = "wait" /\ PhaseNow(t) /\ wakes[t] >= 1 /\ sets[t] >= 2

\* C2: every poll registers the caller's waker before the readiness read and
\* before the load of a Ready poll: at these points the task's waker is in
\* WAKER[id], or it was there and set_timer has taken and invoked it.
C2_RegisterBeforeRead ==
    \A t \in Tasks :
        pc[t] \in {"read", "load"} => (WAKER[id[t]] = t \/ wakes[t] >= 1)

\* a poll that is about to return Ready, with its waker registered
C2_Witness ==
    \E t \in Tasks : pc[t] = "load" /\ WAKER[id[t]] = t

\* C3: a Timer future awaiting phase P resolves to a counter of parity P
\* (Tick only to odd values, Tock only to even ones).
C3_ResolvedParity ==
    \A t \in Tasks :
        resolved[t] # <<>> => resolved[t][2] % 2 = resolved[t][1]

C5_LatestCounter ==
    supplied # <<>> => TIMER = supplied[Len(supplied)]

\* three calls, the second one skipping a value
C5_Witness ==
    Len(supplied) = 3 /\ supplied[2] = supplied[1] + 2 /\ TIMER = supplied[3]


Finished(t) == prog[t] = "sleep" /\ pc[t] = "done"
Quiescent == running = None /\ queue = <<>>
TickTock(k) == [j \in 1..(2 * k) |-> j % 2]

\* C7 (as claimed): sleep(id, 4) suspends the calling task exactly twice and
\* returns the counter observed at the second Tock.
C7_SuspendsTwice ==
    \A t \in Tasks :
        (Finished(t) /\ ticks[t] = 4)
            => (suspensions[t] = 2 /\ sink = <<resolved[t][2]>>)

\* C7 (amended): sleep(id, 4) resolves Tick, Tock, Tick, Tock in this order
\* and returns the counter loaded by the second Tock, for any starting phase;
\* the number of suspensions is not fixed, it is at most the number of
\* set_timer calls made during the sleep.
C7_TwoCycles ==
    \A t \in Tasks :
        (Finished(t) /\ ticks[t] = 4)
            => /\ awaits[t] = <<1, 0, 1, 0>>
               /\ resolved[t][1] = 0
               /\ sink = <<resolved[t][2]>>
               /\ suspensions[t] <= Calls(t)

\* sleep(id, 4) started on an odd counter and finished after three suspensions
C7_Witness ==
    \E t \in Tasks :
        /\ Finished(t) /\ ticks[t] = 4
        /\ started[t][2] % 2 = 1
        /\ suspensions[t] = 3

\* C8 (as claimed): one task doing sleep(0, 2) and then writing the result;
\* after set_timer(1) and set_timer(2), once the executor has nothing left
\* to poll, there is exactly one sink write, of the value 2, whatever the
\* interleaving.
C8_OneWriteAlways ==
    (prog[1] = "sleep" /\ ticks[1] = 2 /\ id[1] = 0
        /\ supplied = <<1, 2>> /\ Quiescent)
        => sink = <<2>>

\* C8 (amended): in every interleaving there is at most one sink write and
\* its value is 2; there is exactly one when each of the two interrupts
\* arrives while the task is suspended on its Timer future.
C8_OneWriteWhenSuspended ==
    (prog[1] = "sleep" /\ ticks[1] = 2 /\ id[1] = 0
        /\ supplied \in {<<>>, <<1>>, <<1, 2>>})
        => /\ sink \in {<<>>, <<2>>}
           /\ (clean /\ supplied = <<1, 2>> /\ Quiescent) => sink = <<2>>

\* the scenario run with each interrupt arriving at a suspended task
C8_Witness ==
    /\ prog[1] = "sleep" /\ ticks[1] = 2 /\ id[1] = 0
    /\ supplied = <<1, 2>> /\ clean /\ Quiescent
    /\ sink = <<2>>

\* C9 (as claimed): for even N >= 2, sleep(id, N) does not complete before N
\* set_timer calls have occurred after its first poll began.
C9_WaitsNTicks ==
    \A t \in Tasks :
        (Finished(t) /\ ticks[t] % 2 = 0) => Calls(t) >= ticks[t]

\* C9 (amended): for even N >= 2, sleep(id, N) does not complete before N - 1
\* set_timer calls have occurred after its first poll began, and not before N
\* calls when the counter was even at that point.
C9_WaitsAtLeast ==
    \A t \in Tasks :
        (Finished(t) /\ ticks[t] % 2 = 0)
            => /\ Calls(t) >= ticks[t] - 1
               /\ started[t][2] % 2 = 0 => Calls(t) >= ticks[t]

\* sleep(id, 4) started on an odd counter, finished after three interrupts
C9_Witness ==
    \E t \in Tasks :
        /\ Finished(t) /\ ticks[t] = 4
        /\ started[t][2] % 2 = 1
        /\ Calls(t) = 3

\* C10: sleep(id, ticks) performs floor(ticks / 2) iterations, each one
\* resolving Tick and then Tock, and returns the counter loaded by the last
\* Tock; an odd tick count is floored.
C10_FlooredCycles ==
    \A t \in Tasks :
        Finished(t)
            => /\ n[t] = ticks[t] \div 2
               /\ awaits[t] = TickTock(ticks[t] \div 2)
               /\ resolved[t][1] = 0
               /\ sink = <<resolved[t][2]>>

\* sleep(id, 5) finished after two cycles, like sleep(id, 4)
C10_Witness ==
    \E t \in Tasks :
        Finished(t) /\ ticks[t] = 5 /\ n[t] = 2 /\ Len(awaits[t]) = 4

\* ------------------------------------------------ SpecLock
\* The WRITER spin lock, taken by task context and by a printing interrupt
\* handler. Task context is one thread making one VGA call at a time; the
\* timer interrupt calls set_timer of timer_.rs, which prints a warning
\* while the OnceCell TIMER is not initialised.
VgaOps == {"set_text_attr", "print", "set_attribute", "clear_screen"}

\* the calls that wrap WRITER.lock() in interrupts::without_interrupts
masks_interrupts(op) == op # "set_text_attr"

base == <<impl, READY, queue, running, pc, fut, id, prog, ticks, n, timer,
          sink, wakes, sets, resolved, awaits, suspensions, started, lost,
          clean>>

InitLock ==
    /\ InitCommon
    /\ cap = QueueCap
    /\ impl = "stream"
    /\ prog = [t \in Tasks |-> "none"]
    /\ ticks = [t \in Tasks |-> 0]
    /\ id = [t \in Tasks |-> 0]
    /\ pc = [t \in Tasks |-> "done"]
    /\ queue = <<>>

\* task context enters one of the VGA calls
VgaCall(op) ==
    /\ irq.pc = "idle"
    /\ vop.op = "none"
    /\ vop.done < MaxCalls
    /\ vop' = [op |-> op, pc |-> "enter", saved |-> FALSE, done |-> vop.done]
    /\ UNCHANGED <<base, TIMER, WAKER, supplied, ints, halted, epc, cap, io, irq,
                   once, wlock>>

\* without_interrupts: remember the interrupt flag and clear it
VgaEnter ==
    /\ irq.pc = "idle"
    /\ vop.pc = "enter"
    /\ IF masks_interrupts(vop.op)
       THEN /\ vop' = [vop EXCEPT !.pc = "lock", !.saved = ints]
            /\ ints' = FALSE
       ELSE /\ vop' = [vop EXCEPT !.pc = "lock"]
            /\ UNCHANGED ints
    /\ UNCHANGED <<base, TIMER, WAKER, supplied, halted, epc, cap, io, irq, once,
                   wlock>>

\* WRITER.lock(): a spin lock, acquired only when free
VgaLock ==
    /\ irq.pc = "idle"
    /\ vop.pc = "lock"
    /\ wlock = "free"
    /\ wlock' = "task"
    /\ vop' = [vop EXCEPT !.pc = "held"]
    /\ UNCHANGED <<base, TIMER, WAKER, supplied, ints, halted, epc, cap, io, irq,
                   once>>

\* the guard is dropped at the end of the statement
VgaUnlock ==
    /\ irq.pc = "idle"
    /\ vop.pc = "held"
    /\ wlock' = "free"
    /\ vop' = [vop EXCEPT !.pc = "exit"]
    /\ UNCHANGED <<base, TIMER, WAKER, supplied, ints, halted, epc, cap, io, irq,
                   once>>

\* without_interrupts: set the interrupt flag again if it was set before
VgaExit ==
    /\ irq.pc = "idle"
    /\ vop.pc = "exit"
    /\ ints' = IF masks_interrupts(vop.op) THEN vop.saved ELSE ints
    /\ vop' = [NoOp EXCEPT !.done = vop.done + 1]
    /\ UNCHANGED <<base, TIMER, WAKER, supplied, halted, epc, cap, io, irq, once,
                   wlock>>

\* TimerStream::new: TIMER.try_init_once
StreamNew ==
    /\ irq.pc = "idle"
    /\ vop.op = "none"
    /\ ~once
    /\ once' = TRUE
    /\ UNCHANGED <<base, TIMER, WAKER, supplied, ints, halted, epc, cap, io, irq,
                   wlock, vop>>

\* The timer interrupt with set_timer of timer_.rs. The handler runs with
\* interrupts disabled and returns at once, unless its println finds WRITER
\* locked: the lock holder cannot run before the handler returns, so the
\* handler spins for ever.
StreamIrq(c) ==
    /\ irq.pc = "idle"
    /\ ints
    /\ c > (IF supplied = <<>> THEN 0 ELSE supplied[Len(supplied)])
    /\ c <= (IF supplied = <<>> THEN 0 ELSE supplied[Len(supplied)]) + MaxStep
    /\ c <= MaxTimer
    /\ supplied' = Append(supplied, c)
    /\ IF once
       THEN /\ TIMER' = store(TIMER, c)
            /\ WAKER' = wake(WAKER, 0)[1]
            /\ UNCHANGED <<irq, ints>>
       ELSE IF wlock = "free"
       THEN UNCHANGED <<TIMER, WAKER, irq, ints>>
       ELSE /\ irq' = [irq EXCEPT !.pc = "spin", !.c = c]
            /\ ints' = FALSE
            /\ UNCHANGED <<TIMER, WAKER>>
    /\ UNCHANGED <<base, halted, epc, cap, io, once, wlock, vop>>

NextLock ==
    \/ \E op \in VgaOps : VgaCall(op)
    \/ VgaEnter
    \/ VgaLock
    \/ VgaUnlock
    \/ VgaExit
    \/ StreamNew
    \/ \E c \in 1..MaxTimer : StreamIrq(c)

SpecLock == InitLock /\ [][NextLock]_vars

\* C13: the WRITER spin lock is never held by task context while interrupts
\* are enabled, and no interrupt handler that prints spins on it for ever.
C13_NoLockAcrossInterrupts ==
    /\ ~(wlock = "task" /\ ints)
    /\ irq.pc # "spin"

\* ------------------------------------------------ SpecIrq
\* set_timer statement by statement. The handler runs with interrupts
\* disabled on the one processor, so task code stands still from its entry
\* to its return; between two interrupts the tasks run as in Spec.
tasks == <<running, pc, fut, id, prog, ticks, n, timer, sink, wakes, sets,
           resolved, awaits, suspensions, started, lost, clean>>

\* a loop that stops one slot early
more_timers_short(i) == i < MAX_TIMERS - 1

\* for id in 0..MAX_TIMERS
more_timers(i) == i < MAX_TIMERS

\* the interrupt is taken: set_timer(c) is entered
IrqEnter(c) ==
    /\ irq.pc = "idle"
    /\ ints
    /\ c > TIMER
    /\ c <= TIMER + MaxStep
    /\ c <= MaxTimer
    /\ irq' = [pc |-> "store", c |-> c, i |-> 0, stores |-> 0, attempts |-> 0]
    /\ ints' = FALSE
    /\ supplied' = Append(supplied, c)
    /\ UNCHANGED <<impl, TIMER, READY, WAKER, queue, tasks, halted, epc, cap, io,
                   once, wlock, vop>>

\* TIMER.store(counter, Ordering::Relaxed)
IrqStore ==
    /\ irq.pc = "store"
    /\ TIMER' = store(TIMER, irq.c)
    /\ irq' = [irq EXCEPT !.pc = IF impl = "flag" THEN "flags" ELSE "wake",
                          !.stores = @ + 1]
    /\ UNCHANGED <<impl, READY, WAKER, queue, tasks, supplied, ints, halted,
                   epc, cap, io, once, wlock, vop>>

\* timer.rs: READY[index].store(true), READY[index ^ 1].store(false)
IrqFlags ==
    /\ irq.pc = "flags"
    /\ READY' = set_ready(READY, irq.c % 2)
    /\ irq' = [irq EXCEPT !.pc = "wake"]
    /\ UNCHANGED <<impl, TIMER, WAKER, queue, tasks, supplied, ints, halted,
                   epc, cap, io, once, wlock, vop>>

\* one turn of the loop: WAKER[id].wake()
IrqWake ==
    /\ irq.pc = "wake"
    /\ more_timers(irq.i)
    /\ LET r == wake(WAKER, irq.i)
       IN  /\ WAKER' = r[1]
           /\ queue' = wake_task(queue, r[2])
           /\ wakes' = [t \in Tasks |-> IF t = r[2] THEN wakes[t] + 1 ELSE wakes[t]]
           /\ lost' = [t \in Tasks |->
                          lost[t] \/ (t = r[2] /\ wake_task(queue, r[2]) = queue)]
    /\ irq' = [irq EXCEPT !.i = @ + 1, !.attempts = @ + 1]
    /\ UNCHANGED <<impl, TIMER, READY, running, pc, fut, id, prog, ticks, n,
                   timer, sink, sets, resolved, awaits, suspensions, started,
                   clean, supplied, ints, halted, epc, cap, io, once, wlock, vop>>

\* the loop is over: set_timer and the handler return
IrqReturn ==
    /\ irq.pc = "wake"
    /\ ~more_timers(irq.i)
    /\ irq' = [irq EXCEPT !.pc = "idle"]
    /\ ints' = TRUE
    /\ UNCHANGED <<impl, TIMER, READY, WAKER, queue, tasks, supplied, halted,
                   epc, cap, io, once, wlock, vop>>

IrqStep == IrqStore \/ IrqFlags \/ IrqWake \/ IrqReturn

NextIrq ==
    \/ \E c \in 1..MaxTimer : IrqEnter(c)
    \/ IrqStore
    \/ IrqFlags
    \/ IrqWake
    \/ IrqReturn
    \/ ExecutorPoll
    \/ \E t \in Tasks : Register(t)
    \/ \E t \in Tasks : IsReady(t)
    \/ \E t \in Tasks : Body(t)
    \/ \E t \in Tasks : LoadTimer(t)

SpecIrq == Init /\ [][NextIrq]_vars

\* position of the handler on its way from entry to return
Measure(r) ==
    IF r.pc = "store" THEN 0
    ELSE IF r.pc = "flags" THEN 1
    ELSE IF r.pc = "wake" THEN 2 + r.i
    ELSE 3 + MAX_TIMERS

\* C14: set_timer never blocks and ends after a bounded number of steps:
\* wherever it stands its next statement can execute, whatever wakers are
\* registered and whatever the tasks were doing; every step moves it forward;
\* it returns after exactly one store of the counter and exactly MAX_TIMERS
\* wake attempts, and it never takes the WRITER lock.
C14_BoundedSetTimer ==
    /\ [](/\ irq.pc # "idle" => ENABLED IrqStep
          /\ irq.stores <= 1
          /\ irq.attempts <= MAX_TIMERS
          /\ irq.pc = "wake" => (irq.stores = 1 /\ irq.attempts = irq.i)
          /\ (irq.pc = "idle" /\ supplied # <<>>) =>
                /\ irq.stores = 1
                /\ irq.attempts = MAX_TIMERS
                /\ TIMER = supplied[Len(supplied)]
          /\ wlock # "irq")
    /\ [][irq.pc # "idle" => Measure(irq') > Measure(irq)]_vars

C14_Witness ==
    /\ irq.pc = "wake"
    /\ irq.i = MAX_TIMERS
    /\ \E t \in Tasks :
          /\ pc[t] = "read"
          /\ Count(queue, t) = 1
          /\ WAKER[id[t]] = None

\* ------------------------------------------------ SpecLive
\* Progress of an awaiting task while the interrupt never stops. The handler
\* is called with the last counter plus one and runs statement by statement;
\* the model keeps the low CounterBits bits of the counter, which leaves
\* untouched the bit 0 that the two implementations read, and stops recording
\* the list of counters.
Wrap == 2 ^ CounterBits

InitLive ==
    /\ InitCommon
    /\ cap = QueueCap
    /\ impl \in {"flag", "parity"}
    /\ prog = [t \in Tasks |-> IF t = 1 THEN "loop" ELSE "none"]
    /\ ticks = [t \in Tasks |-> 0]
    /\ \E s \in {0, MAX_TIMERS - 1} : id = [t \in Tasks |-> IF t = 1 THEN s ELSE 0]
    /\ pc = [t \in Tasks |-> IF t = 1 THEN "new" ELSE "done"]
    /\ queue = <<1>>

\* the interrupt is taken: set_timer(TIMER + 1) is entered
timer_interrupt ==
    /\ irq.pc = "idle"
    /\ ints
    /\ irq' = [pc |-> "store", c |-> (TIMER + 1) % Wrap, i |-> 0, stores |-> 0,
               attempts |-> 0]
    /\ ints' = FALSE
    /\ clean' = (clean /\ \A t \in Tasks :
                    pc[t] = "done" \/ (pc[t] = "wait" /\ WAKER[id[t]] = t))
    /\ UNCHANGED <<impl, TIMER, READY, WAKER, queue, running, pc, fut, id, prog,
                   ticks, n, timer, sink, supplied, wakes, sets, resolved,
                   awaits, suspensions, started, lost, halted, epc, cap, io, once,
                   wlock, vop>>

NextLive ==
    \/ timer_interrupt
    \/ IrqStore
    \/ IrqFlags
    \/ IrqWake
    \/ IrqReturn
    \/ ExecutorPoll
    \/ \E t \in Tasks : Register(t)
    \/ \E t \in Tasks : IsReady(t)
    \/ \E t \in Tasks : Body(t)
    \/ \E t \in Tasks : LoadTimer(t)

\* weak fairness on the interrupt and its handler, on the executor and on
\* the code of a task that is being polled
SpecLive ==
    /\ InitLive
    /\ [][NextLive]_vars
    /\ WF_vars(timer_interrupt)
    /\ WF_vars(IrqStep)
    /\ WF_vars(ExecutorPoll)
    /\ \A t \in Tasks :
          WF_vars(Register(t) \/ IsReady(t) \/ Body(t) \/ LoadTimer(t))

Awaiting(t, tag) == fut[t] = tag /\ pc[t] \in {"reg", "read", "wait"}
Resolves(t, tag) == fut[t] = tag /\ pc[t] = "load"

\* C16 (as claimed): with the interrupt calling set_timer for ever, counters
\* increasing by one, and every woken task eventually polled, every task that
\* awaits a Tick or a Tock eventually resolves that await.
C16_EventuallyResolves ==
    \A t \in Tasks : \A tag \in {"Tick", "Tock"} :
        Awaiting(t, tag) ~> Resolves(t, tag)

\* C16 (amended): the same, as long as every interrupt so far has found every
\* task suspended with its waker registered, that is, as long as each woken
\* task was polled before the next interrupt.
C16_ResolvesWhenPolledInTime ==
    \A t \in Tasks : \A tag \in {"Tick", "Tock"} :
        Awaiting(t, tag) ~> (Resolves(t, tag) \/ ~clean)

C16_Witness ==
    /\ clean
    /\ \E t \in Tasks :
          /\ resolved[t] = <<0, 0>>
          /\ fut[t] = "Tick"
          /\ pc[t] = "wait"

\* ------------------------------------------------ SpecExec
\* The run loop of the executor with its idle sequence: drain the ready
\* queue; when it is empty disable interrupts, look at the queue again and
\* either halt (enable_and_hlt) or enable interrupts and go on draining.
\* The timer interrupt is taken only while interrupts are enabled, and it
\* ends a halt. Two tasks are spawned, one that sleeps and returns and one
\* that awaits Tick and Tock for ever, or a single task on a queue of one.
InitExec ==
    /\ InitCommon
    /\ \/ /\ cap = QueueCap
          /\ impl = "parity"
          /\ prog = [t \in Tasks |-> IF t = 1 THEN "sleep"
                                   ELSE IF t = 2 THEN "loop" ELSE "none"]
          /\ ticks = [t \in Tasks |-> IF t = 1 THEN 2 ELSE 0]
          /\ id = [t \in Tasks |-> IF t <= 2 THEN t - 1 ELSE 0]
          /\ pc = [t \in Tasks |-> IF t <= 2 THEN "new" ELSE "done"]
          /\ queue = <<1, 2>>
       \/ /\ cap = 1
          /\ impl \in {"flag", "parity"}
          /\ prog = [t \in Tasks |-> IF t = 1 THEN "loop" ELSE "none"]
          /\ ticks = [t \in Tasks |-> 0]
          /\ id = [t \in Tasks |-> 0]
          /\ pc = [t \in Tasks |-> IF t = 1 THEN "new" ELSE "done"]
          /\ queue = <<1>>

\* the timer interrupt: set_timer(c), and the processor leaves hlt
ExecIrq(c) ==
    /\ irq.pc = "idle"
    /\ ints
    /\ set_timer(c)
    /\ halted' = FALSE
    /\ epc' = IF halted THEN "drain" ELSE epc
    /\ UNCHANGED <<ints, cap, io, irq, once, wlock, vop>>

\* the pop finds the queue empty: the drain is over
ExecDrained ==
    /\ irq.pc = "idle"
    /\ ~halted
    /\ epc = "drain"
    /\ running = None
    /\ queue = <<>>
    /\ epc' = "cli"
    /\ UNCHANGED <<impl, TIMER, READY, WAKER, queue, tasks, supplied, ints,
                   halted, cap, io, irq, once, wlock, vop>>

\* interrupts::disable()
ExecCli ==
    /\ irq.pc = "idle"
    /\ epc = "cli"
    /\ ints' = disable(ints)
    /\ epc' = "check"
    /\ UNCHANGED <<impl, TIMER, READY, WAKER, queue, tasks, supplied, halted,
                   cap, io, irq, once, wlock, vop>>

\* if the queue is empty: go to sleep; else interrupts::enable() and go on
ExecCheck ==
    /\ irq.pc = "idle"
    /\ epc = "check"
    /\ IF queue = <<>>
       THEN /\ epc' = "sleep"
            /\ UNCHANGED ints
       ELSE /\ epc' = "drain"
            /\ ints' = TRUE
    /\ UNCHANGED <<impl, TIMER, READY, WAKER, queue, tasks, supplied, halted,
                   cap, io, irq, once, wlock, vop>>

\* enable_and_hlt: sti; hlt, with no interrupt taken between the two
ExecHlt ==
    /\ irq.pc = "idle"
    /\ epc = "sleep"
    /\ ints' = TRUE
    /\ halted' = TRUE
    /\ epc' = "halted"
    /\ UNCHANGED <<impl, TIMER, READY, WAKER, queue, tasks, supplied, cap, io, irq,
                   once, wlock, vop>>

ExecIdle == ExecDrained \/ ExecCli \/ ExecCheck \/ ExecHlt

NextExec ==
    \/ \E c \in 1..MaxTimer : ExecIrq(c)
    \/ ExecutorPoll
    \/ ExecDrained
    \/ ExecCli
    \/ ExecCheck
    \/ ExecHlt
    \/ \E t \in Tasks : Register(t)
    \/ \E t \in Tasks : IsReady(t)
    \/ \E t \in Tasks : Body(t)
    \/ \E t \in Tasks : LoadTimer(t)

\* weak fairness on the executor and on the code of a task being polled
SpecExec ==
    /\ InitExec
    /\ [][NextExec]_vars
    /\ WF_vars(ExecutorPoll)
    /\ WF_vars(ExecIdle)
    /\ \A t \in Tasks :
          WF_vars(Register(t) \/ IsReady(t) \/ Body(t) \/ LoadTimer(t))

\* ------------------------------------------------ C11, C12 (SpecPanic)
\* C11: sleep(id, ticks) with ticks < 2 panics on its assertion when it is
\* first polled, before any Timer future exists: the task registers no waker
\* in any slot, never reads TIMER, resolves nothing and returns nothing.
C11_SleepAsserts ==
    \A t \in Tasks :
        (prog[t] = "sleep" /\ ticks[t] < 2) =>
            /\ pc[t] \in {"new", "body", "panic"}
            /\ awaits[t] = <<>>
            /\ \A s \in Slots : WAKER[s] # t
            /\ resolved[t] = <<>>
            /\ sink = <<>>

C11_Witness ==
    \E t \in Tasks :
        /\ prog[t] = "sleep"
        /\ ticks[t] = 1
        /\ pc[t] = "panic"
        /\ TIMER > 0

\* C12: a poll of a Timer whose id is MAX_TIMERS or more panics at once: the
\* task holds no waker slot, never reaches the read of TIMER or of the flags,
\* and the panicking step changes neither TIMER, READY nor WAKER; a poll with
\* an id below MAX_TIMERS never panics.
C12_IdOutOfRange ==
    /\ [](\A t \in Tasks :
            /\ (prog[t] = "loop" /\ id[t] >= MAX_TIMERS) =>
                  /\ pc[t] \in {"new", "body", "reg", "panic"}
                  /\ \A s \in Slots : WAKER[s] # t
                  /\ resolved[t] = <<>>
            /\ (pc[t] = "panic" /\ id[t] < MAX_TIMERS) =>
                  (prog[t] = "sleep" /\ ticks[t] < 2))
    /\ [][\A t \in Tasks :
            (pc[t] = "reg" /\ pc'[t] = "panic") =>
                (TIMER' = TIMER /\ READY' = READY /\ WAKER' = WAKER)]_vars

C12_Witness ==
    \E t \in Tasks :
        /\ prog[t] = "loop"
        /\ id[t] = MAX_TIMERS
        /\ pc[t] = "panic"
        /\ \E u \in Tasks : pc[u] = "wait"

\* ------------------------------------------------ C15 (Spec)
\* C15: the values returned by the successive resolved Timer futures of one
\* task never decrease, and each returned value is the counter most recently
\* stored by set_timer at the moment the future resolves.
C15_MonotoneLatest ==
    [][\A t \in Tasks :
          resolved'[t] # resolved[t] =>
              /\ resolved'[t][2] = TIMER
              /\ supplied # <<>> => resolved'[t][2] = supplied[Len(supplied)]
              /\ supplied = <<>> => resolved'[t][2] = 0
              /\ resolved[t] # <<>> => resolved'[t][2] >= resolved[t][2]]_vars

C15_Witness ==
    \E t \in Tasks :
        /\ resolved[t] # <<>>
        /\ resolved[t][2] = MaxTimer
        /\ resolved[t][1] = 1
        /\ Len(supplied) >= 3

\* ------------------------------------------------ C17..C20 (SpecExec)
\* C17: the executor never halts the processor while the ready queue holds
\* an entry: between the test of the queue and the halt no interrupt is
\* taken and nothing is pushed.
C17_NoHaltWithWork ==
    /\ [](halted => (queue = <<>> /\ running = None))
    /\ [][(epc = "check" \/ epc = "sleep") =>
             (supplied' = supplied /\ queue' = queue)]_vars

C17_Witness ==
    /\ halted
    /\ \E t \in Tasks :
          /\ pc[t] = "wait"
          /\ resolved[t] # <<>>
          /\ WAKER[id[t]] = t

C19_DoneNeverPolled ==
    [][\A t \in Tasks :
          pc[t] = "done" => (pc'[t] = "done" /\ running' # t)]_vars

C19_Witness ==
    /\ halted
    /\ \E t \in Tasks :
          /\ prog[t] = "sleep"
          /\ pc[t] = "done"
          /\ wakes[t] = 1
          /\ ~lost[t]
          /\ WAKER[id[t]] = None

\* C20: a wake that finds the ready queue full is dropped: nothing panics,
\* the queue keeps its entries and never exceeds its capacity, at least one
\* entry is in the queue at that moment, and a suspended task that still has
\* an entry in the queue is polled afterwards.
C20_DropOnFull ==
    /\ [](/\ Len(queue) <= cap
          /\ \A k \in 1..Len(queue) : queue[k] \in Tasks
          /\ \A t \in Tasks : pc[t] # "panic")
    /\ [][\A t \in Tasks :
            (lost'[t] /\ ~lost[t]) =>
                /\ Len(queue') = cap
                /\ Len(queue') >= 1
                /\ SubSeq(queue', 1, Len(queue)) = queue]_vars
    /\ \A t \in Tasks :
          (lost[t] /\ pc[t] = "wait" /\ Count(queue, t) > 0) ~> (running = t)

C20_Witness ==
    /\ cap = 1
    /\ \E t \in Tasks :
          /\ lost[t]
          /\ pc[t] = "wait"
          /\ queue = <<t>>


\* ---------------------------------------------- the Writer (SpecVga, SpecText)
\* Task context prints through WRITER: every call of write_str runs
\* write_string over its argument, byte by byte, with a parser that starts
\* in the Start state.  A panic inside a method of the Writer ends the
\* kernel.  SpecVga prints escape sequences and text, SpecText text only.

kernel == <<impl, TIMER, READY, WAKER, queue, running, pc, fut, id, prog,
            ticks, n, timer, sink, supplied, wakes, sets, resolved, awaits,
            suspensions, started, lost, clean,
            ints, halted, epc, cap, irq, once, wlock, vop>>

\* format!("{}", n) of an integer
RECURSIVE Dec(_)
Dec(k) == IF k < 10 THEN <<48 + k>> ELSE Dec(k \div 10) \o <<48 + (k % 10)>>

\* "\x1b[" args final
Csi(args, final) == <<ESC, LBRACKET>> \o args \o <<final>>

\* "\x1b[r;cH"
Cup(r, c) == Csi(Dec(r) \o <<SEMI>> \o Dec(c), FINAL_H)

\* "\x1b[...m"
Sgr(args) == Csi(args, FINAL_m)

\* a line of k letters
Line(k) == [i \in 1..k |-> 97 + (i % 26)]

\* parameters of the CUP sequences printed: <<row, column>>
CupParams ==
    {<<1, 1>>, <<20, 1>>, <<25, 80>>, <<2, 81>>, <<26, 1>>, <<26, 81>>,
     <<1, 82>>, <<0, 1>>, <<1, 0>>, <<255, 255>>}

\* parameters of the CUP sequences printed with the text "Hi" after them
CupText == {<<1, 1>>, <<25, 80>>, <<2, 81>>, <<26, 1>>}

\* parameters of the SGR sequences printed: "", "0", "31", "41", "42",
\* "31;42", "1;31"
SgrArgs ==
    {<<>>, Dec(0), Dec(31), Dec(41), Dec(42),
     Dec(31) \o <<SEMI>> \o Dec(42), Dec(1) \o <<SEMI>> \o Dec(31)}

\* sequences the Writer rejects: "\x1b]", "\x1b[z", "\x1b[2m", "\x1b[=m",
\* "\x1b[=;1H", "\x1b[1H", "\x1b[1;2;3H"
Malformed ==
    {<<ESC, 93>>, Csi(<<>>, 122), Sgr(Dec(2)), Sgr(<<61>>),
     Csi(<<61, SEMI, 49>>, FINAL_H), Csi(Dec(1), FINAL_H),
     Csi(<<49, SEMI, 50, SEMI, 51>>, FINAL_H)}

\* plain text: "\n", "Hi", "~", a control byte, the two bytes of a non-ASCII
\* character
Plain == {<<LF>>, <<72, 105>>, <<126>>, <<127>>, <<195, 169>>}

\* plain text with the lines that fill the width of the screen and pass it
Lines == Plain \cup {Line(BUFFER_WIDTH), Line(BUFFER_WIDTH + 1)}

AnsiInputs ==
    {Cup(a[1], a[2]) : a \in CupParams}
        \cup {Sgr(a) : a \in SgrArgs}
        \cup Malformed
        \cup {<<97>> \o e \o <<98>> : e \in Malformed}
        \cup {Cup(a[1], a[2]) \o <<72, 105>> : a \in CupText}
        \cup Plain

InitVga ==
    /\ TIMER = 0
    /\ READY = [b \in 0..1 |-> FALSE]
    /\ WAKER = [s \in Slots |-> None]
    /\ running = None
    /\ impl = "parity"
    /\ queue = <<>>
    /\ pc = [t \in Tasks |-> "done"]
    /\ fut = [t \in Tasks |-> "Tick"]
    /\ id = [t \in Tasks |-> 0]
    /\ prog = [t \in Tasks |-> "none"]
    /\ ticks = [t \in Tasks |-> 0]
    /\ n = [t \in Tasks |-> 0]
    /\ timer = [t \in Tasks |-> 0]
    /\ sink = <<>>
    /\ supplied = <<>>
    /\ wakes = [t \in Tasks |-> 0]
    /\ sets = [t \in Tasks |-> 0]
    /\ resolved = [t \in Tasks |-> <<>>]
    /\ awaits = [t \in Tasks |-> <<>>]
    /\ suspensions = [t \in Tasks |-> 0]
    /\ started = [t \in Tasks |-> <<>>]
    /\ lost = [t \in Tasks |-> FALSE]
    /\ clean = TRUE
    /\ ints = TRUE
    /\ halted = FALSE
    /\ epc = "drain"
    /\ cap = QueueCap
    /\ irq = IrqIdle
    /\ once = FALSE
    /\ wlock = "free"
    /\ vop = NoOp
    /\ build \in {"debug", "release"}
    /\ writer = WRITER0
    /\ wlog = NoLog
    /\ pit = NoPit

\* impl fmt::Write for Writer: write_str(s)
write_str(s) ==
    /\ ~writer.panicked
    /\ writer' = write_string(writer, s, build)
    /\ wlog' = [wlog EXCEPT !.inputs = Append(@, s), !.calls = @ + 1]
    /\ UNCHANGED <<kernel, build, pit>>

\* Writer::clear_screen(Default::default()), the first call of kernel_main
ClearScreen ==
    /\ ~writer.panicked
    /\ wlog.calls = 0
    /\ writer' = clear_screen(writer, attr_default, build)
    /\ wlog' = [wlog EXCEPT !.cleared = TRUE, !.calls = @ + 1]
    /\ UNCHANGED <<kernel, build, pit>>

\* print! of a string with escape sequences
PrintAnsi ==
    /\ wlog.calls < MaxPrints
    /\ \E s \in AnsiInputs : write_str(s)

\* print! of plain text
PrintLine ==
    /\ wlog.calls < MaxLines
    /\ \E s \in Lines : write_str(s)

NextVga == ClearScreen \/ PrintAnsi

SpecVga == InitVga /\ [][NextVga]_vars

NextText == ClearScreen \/ PrintLine

SpecText == InitVga /\ [][NextText]_vars


\* ---------------------------------------------------------------- C21
\* C21: printing never panics on a malformed or unsupported escape
\* sequence: after a print of a rejected sequence (a bad byte after ESC, an
\* unsupported final byte, an unsupported or unparsable SGR argument, bad
\* CUP arguments) the Writer has not panicked, the ANSI_ERROR glyph was
\* stored, the parser is back in Start, and a byte that follows the
\* sequence was written after the glyph.
C21_MalformedNeverPanics ==
    \A e \in Malformed :
        /\ (wlog.inputs # <<>>
              /\ wlog.inputs[Len(wlog.inputs)] \in {e, <<97>> \o e \o <<98>>})
            => /\ ~writer.panicked
               /\ writer.state = "Start"
               /\ \E k \in 1..Len(writer.stored) :
                      writer.stored[k][3] = ANSI_ERROR
        /\ (wlog.inputs # <<>>
              /\ wlog.inputs[Len(wlog.inputs)] = <<97>> \o e \o <<98>>)
            => /\ Len(writer.stored) = 3
               /\ writer.stored[1][3] = Char(97, writer.attr)
               /\ writer.stored[2][3] = ANSI_ERROR
               /\ writer.stored[3][3] = Char(98, writer.attr)

\* ---------------------------------------------------------------- C22
\* C22: after any sequence of prints, CUP sequences with any parameters
\* included, row < BUFFER_HEIGHT and column <= BUFFER_WIDTH, and no print
\* has panicked.
C22_CursorInBounds ==
    /\ writer.row < BUFFER_HEIGHT
    /\ writer.column <= BUFFER_WIDTH
    /\ ~writer.panicked

\* ---------------------------------------------------------------- C23
\* C23: from the initial WRITER (cursor on the last row, screen never
\* cleared), after any plain-text prints, the three writes "\n", s, "\n"
\* with s printable and no longer than a line leave s in row
\* BUFFER_HEIGHT - 2, columns 0..len(s)-1.
C23_LineAboveLast ==
    LET k == Len(wlog.inputs)
    IN (/\ ~wlog.cleared
        /\ k >= 3
        /\ wlog.inputs[k] = <<LF>>
        /\ wlog.inputs[k - 2] = <<LF>>
        /\ Len(wlog.inputs[k - 1]) <= BUFFER_WIDTH
        /\ \A i \in 1..Len(wlog.inputs[k - 1]) :
               wlog.inputs[k - 1][i] \in 32..126)
       => /\ ~writer.panicked
          /\ \A i \in 1..Len(wlog.inputs[k - 1]) :
                 writer.buffer[BUFFER_HEIGHT - 1][i][1] = wlog.inputs[k - 1][i]

\* a full line was written that way after another print
C23_Witness ==
    /\ ~wlog.cleared
    /\ Len(wlog.inputs) = 4
    /\ wlog.inputs[2] = <<LF>>
    /\ wlog.inputs[3] = Line(BUFFER_WIDTH)
    /\ wlog.inputs[4] = <<LF>>
    /\ \A i \in 1..BUFFER_WIDTH :
           writer.buffer[BUFFER_HEIGHT - 1][i]
               = Char(Line(BUFFER_WIDTH)[i], attr_default)

\* ---------------------------------------------------------------- C24
\* C24: a character written when column = BUFFER_WIDTH is stored, after one
\* new_line, at column 0 of the next row (of the last row when the cursor
\* was at the bottom); it is not dropped.
C24_WrapsAtWidth ==
    [][(/\ ~writer.panicked
        /\ writer.column = BUFFER_WIDTH
        /\ wlog'.inputs = Append(wlog.inputs, <<126>>))
       => /\ ~writer'.panicked
          /\ writer'.newlines = 1
          /\ writer'.stored =
                 <<<<IF writer.row < BUFFER_HEIGHT - 1
                     THEN writer.row + 1 ELSE BUFFER_HEIGHT - 1,
                     0, Char(126, writer.attr)>>>>]_vars

\* ---------------------------------------------------------------- C26
\* C26: a code 40-47 sets the background and leaves the foreground (the
\* low four bits of the attribute) as it was, a code 30-37 sets the
\* foreground and leaves the background (the high four bits), ESC[m and
\* ESC[0m give LightGray on Black; cursor and buffer do not change.
C26_SgrFrame ==
    [][\A code \in {31, 41, 42} :
         (/\ ~writer.panicked
          /\ wlog'.inputs = Append(wlog.inputs, Sgr(Dec(code))))
         => /\ writer'.row = writer.row
            /\ writer'.column = writer.column
            /\ writer'.buffer = writer.buffer
            /\ code \in 30..37 =>
                  /\ writer'.attr % 16 = from_ansi(code - 30)
                  /\ writer'.attr \div 16 = writer.attr \div 16
            /\ code \in 40..47 =>
                  /\ writer'.attr \div 16 = from_ansi(code - 40)
                  /\ writer'.attr % 16 = writer.attr % 16]_vars

\* ---------------------------------------------------------------- C27
\* C27: ESC[r;cH with r, c >= 1 stores no cell and the text after it is
\* written starting at row r-1, column c-1.
C27_CupThenText ==
    \A a \in CupText :
        (/\ wlog.inputs # <<>>
         /\ wlog.inputs[Len(wlog.inputs)] = Cup(a[1], a[2]) \o <<72, 105>>
         /\ a[1] >= 1
         /\ a[2] >= 1)
        => /\ ~writer.panicked
           /\ Len(writer.stored) = 2
           /\ writer.stored[1] = <<a[1] - 1, a[2] - 1, Char(72, writer.attr)>>
           /\ writer.stored[2][3] = Char(105, writer.attr)

\* ---------------------------------------------------------------- C28
\* C28: new_line on a row above the last one increments row, sets column
\* to 0 and leaves the buffer as it is; on the last row it copies every row
\* r >= 1 to row r-1, fills the last row with blanks in the current
\* attribute, keeps row and sets column to 0.
C28_NewLine ==
    [][(/\ ~writer.panicked
        /\ wlog'.inputs = Append(wlog.inputs, <<LF>>))
       => /\ writer.row < BUFFER_HEIGHT - 1 =>
                /\ writer'.row = writer.row + 1
                /\ writer'.column = 0
                /\ writer'.buffer = writer.buffer
          /\ writer.row = BUFFER_HEIGHT - 1 =>
                /\ writer'.row = writer.row
                /\ writer'.column = 0
                /\ \A r \in 1..(BUFFER_HEIGHT - 1) :
                       writer'.buffer[r] = writer.buffer[r + 1]
                /\ \A c \in 1..BUFFER_WIDTH :
                       writer'.buffer[BUFFER_HEIGHT][c]
                           = Char(32, writer.attr)]_vars

\* a newline on the last row, in an attribute that SGR has set, after the
\* boot screen was there
C28_Witness ==
    /\ Len(wlog.inputs) = 2
    /\ wlog.inputs[1] = Sgr(Dec(41))
    /\ wlog.inputs[2] = <<LF>>
    /\ writer.newlines = 1
    /\ writer.row = BUFFER_HEIGHT - 1
    /\ writer.column = 0
    /\ writer.buffer[1] = WRITER0.buffer[2]
    /\ writer.buffer[BUFFER_HEIGHT][1] = Char(32, Attribute(LightGray, 4))

\* ---------------------------------------------------------------- C29
\* C29: outside escape sequences a byte 0x0A performs new_line and stores
\* nothing, a printable byte is stored as it is in the current attribute,
\* any other byte is stored as 0xfe.
C29_OneEffectPerByte ==
    \A s \in Plain :
        (wlog.inputs # <<>> /\ wlog.inputs[Len(wlog.inputs)] = s)
        => /\ ~writer.panicked
           /\ Len(writer.stored) = Len(SelectSeq(s, LAMBDA x : x # LF))
           /\ writer.newlines >= Len(SelectSeq(s, LAMBDA x : x = LF))
           /\ \A i \in 1..Len(writer.stored) :
                  writer.stored[i][3] =
                      Char(IF s[i] \in 32..126 THEN s[i] ELSE 254, writer.attr)


\* ---------------------------------------------------------------- C25
\* C25: every set_timer call, whatever the parity of its counter, invokes
\* the waker of every registered task and leaves all MAX_TIMERS slots empty;
\* a poll resolves only when its readiness read finds the awaited phase to
\* be the parity of the latest counter, and returns Pending otherwise, with
\* the waker registered by that same poll.
C25_WakesAllResolvesOnPhase ==
    [][/\ supplied' # supplied =>
            /\ \A s \in Slots : WAKER'[s] = None
            /\ \A t \in Tasks :
                   (\E s \in Slots : WAKER[s] = t) => wakes'[t] = wakes[t] + 1
       /\ \A t \in Tasks :
            /\ (pc[t] = "read" /\ pc'[t] = "load")
                   => get_id(fut[t], id[t])[1] = TIMER % 2
            /\ (pc[t] = "read" /\ get_id(fut[t], id[t])[1] # TIMER % 2)
                   => (pc'[t] \in {"read", "wait"})
            /\ (pc[t] = "read" /\ pc'[t] = "wait")
                   => (WAKER[id[t]] = t \/ wakes[t] > 0)]_vars

\* a task that awaited Tock when the odd counter 3 arrived, every task
\* suspended: it was woken, returned Pending and waits registered again
C25_Witness ==
    \E t \in Tasks :
        /\ clean
        /\ supplied = <<1, 3>>
        /\ resolved[t] = <<1, 1>>
        /\ fut[t] = "Tock"
        /\ pc[t] = "wait"
        /\ WAKER[id[t]] = t
        /\ wakes[t] = 0


\* ------------------------------------------------- the 8253 (SpecPit)
\* kernel_main programs channel 0 with set_divider(CH0, u16::MAX); a caller
\* of set_frequency passes a channel and a frequency.  pit.out is the
\* sequence of bytes written to the ports; a panic ends the kernel.

\* frequencies passed: 0, 1, the highest whose divider does not fit (18)
\* and the lowest whose divider does (19), usual rates, the limits of u16,
\* the clock itself and the frequency above it
Freqs == {0, 1, 18, 19, 100, 1000, 65535, 65536, CLK_FREQ, CLK_FREQ + 1}

\* timer::pit::set_divider(timer::pit::Chan::CH0, u16::MAX) of kernel_main
SetDivider ==
    /\ ~pit.panicked
    /\ pit.calls = 0
    /\ pit' = [pit EXCEPT !.out = @ \o set_divider(0, U16_MAX),
                          !.calls = @ + 1,
                          !.last = <<"set_divider", 0, U16_MAX>>]
    /\ UNCHANGED <<kernel, build, writer, wlog>>

\* timer::pit::set_frequency(ch, freq)
SetFrequency(ch, freq) ==
    /\ ~pit.panicked
    /\ pit.calls < MaxSets
    /\ LET r == set_frequency(ch, freq)
       IN pit' = [pit EXCEPT !.out = @ \o r[2],
                             !.panicked = r[1],
                             !.calls = @ + 1,
                             !.last = <<"set_frequency", ch, freq>>]
    /\ UNCHANGED <<kernel, build, writer, wlog>>

NextPit ==
    \/ SetDivider
    \/ \E ch \in Chans, freq \in Freqs : SetFrequency(ch, freq)

SpecPit == InitVga /\ [][NextPit]_vars

\* ---------------------------------------------------------------- C30
\* C30: set_frequency(ch, freq) writes 0x34 to port 0x43 and then the low
\* and the high byte of floor(1193182 / freq) to port 0x40 + ch when freq is
\* not 0 and the quotient fits in 16 bits; otherwise it panics and writes
\* nothing.
C30_ExactDivider ==
    [][\A ch \in Chans, freq \in Freqs :
         (/\ pit'.calls = pit.calls + 1
          /\ pit'.last = <<"set_frequency", ch, freq>>)
         => IF freq # 0 /\ 1193182 \div freq < 65536
            THEN /\ ~pit'.panicked
                 /\ Len(pit'.out) = Len(pit.out) + 3
                 /\ SubSeq(pit'.out, 1, Len(pit.out)) = pit.out
                 /\ pit'.out[Len(pit.out) + 1] = <<67, 52>>
                 /\ pit'.out[Len(pit.out) + 2][1] = 64 + ch
                 /\ pit'.out[Len(pit.out) + 3][1] = 64 + ch
                 /\ pit'.out[Len(pit.out) + 2][2] \in 0..255
                 /\ pit'.out[Len(pit.out) + 3][2] \in 0..255
                 /\ pit'.out[Len(pit.out) + 2][2]
                        + 256 * pit'.out[Len(pit.out) + 3][2]
                    = 1193182 \div freq
            ELSE /\ pit'.panicked
                 /\ pit'.out = pit.out]_vars

\* channel 2 programmed for 100 Hz (divider 11931 = 0x2e9b) after the
\* kernel's own channel 0
C30_Witness ==
    /\ pit.out = <<<<67, 52>>, <<64, 255>>, <<64, 255>>,
                   <<67, 52>>, <<66, 155>>, <<66, 46>>>>
    /\ pit.calls = 2
    /\ ~pit.panicked

\* ------------------------------------------------ SpecStream
\* The stream-based timer of task/timer_.rs: the OnceCell TIMER, the single
\* AtomicWaker WAKER (slot 0 of the registry), set_timer called by the timer
\* interrupt, and tasks that create a TimerStream and poll it. poll_next is
\* four steps (try_get, register, load, take), and the interrupt can fall
\* between any two of them.
WAKER0 == 0

\* the string set_timer prints while TIMER is not initialised
WARNING == "WARNING: timer uninitialized"

\* a cell that always hands out its value
try_get_always(o) == TRUE

\* OnceCell::try_get: Ok exactly when the cell is initialised
try_get(o) == o

\* OnceCell::try_init_once: <<Ok?, initialised afterwards>>; Err when the
\* cell is initialised already
try_init_once(o) == <<~o, TRUE>>

\* a take that leaves the waker where it is
take_none(W, slotid) == W

\* AtomicWaker::take: the slot is empty afterwards
take(W, slotid) == [W EXCEPT ![slotid] = None]

InitStream ==
    /\ InitCommon
    /\ cap = QueueCap
    /\ impl = "stream"
    /\ prog = [t \in Tasks |-> "stream"]
    /\ ticks = [t \in Tasks |-> 0]
    /\ id = [t \in Tasks |-> WAKER0]
    /\ pc = [t \in Tasks |-> "new"]
    /\ queue = [k \in 1..NumTasks |-> k]

\* set_timer(time) of timer_.rs, called by the timer interrupt with a
\* counter larger than the last
StreamSetTimer(c) ==
    /\ c > (IF supplied = <<>> THEN 0 ELSE supplied[Len(supplied)])
    /\ c <= (IF supplied = <<>> THEN 0 ELSE supplied[Len(supplied)]) + MaxStep
    /\ c <= MaxTimer
    /\ supplied' = Append(supplied, c)
    /\ IF try_get(once)
       THEN LET r == wake(WAKER, WAKER0)
            IN  /\ TIMER' = store(TIMER, c)
                /\ WAKER' = r[1]
                /\ queue' = wake_task(queue, r[2])
                /\ wakes' = [t \in Tasks |-> wakes[t] + (IF r[2] = t THEN 1 ELSE 0)]
                /\ lost' = [t \in Tasks |->
                               lost[t] \/ (r[2] = t /\ ~(Len(queue) < cap))]
                /\ UNCHANGED wlog
       ELSE /\ wlog' = [wlog EXCEPT !.inputs = Append(@, WARNING),
                                    !.calls = @ + 1]
            /\ UNCHANGED <<TIMER, WAKER, queue, wakes, lost>>
    /\ sets' = [t \in Tasks |-> IF pc[t] = "s_take" THEN sets[t] + 1 ELSE sets[t]]
    /\ UNCHANGED <<impl, READY, running, pc, fut, id, prog, ticks, n, timer,
                   sink, resolved, awaits, suspensions, started, clean,
                   ints, halted, epc, cap, irq, once, wlock, vop,
                   build, writer, pit>>

\* the task's first poll reaches TimerStream::new
StreamNewTask(t) ==
    /\ running = t
    /\ pc[t] = "body"
    /\ LET r == try_init_once(once)
       IN  IF r[1]
           THEN \* AtomicU64::new(0)
                /\ once' = r[2]
                /\ TIMER' = 0
                /\ pc' = [pc EXCEPT ![t] = "s_next"]
           ELSE \* expect: the kernel panics, no task runs after it
                /\ pc' = [pc EXCEPT ![t] = "panic"]
                /\ UNCHANGED <<once, TIMER>>
    /\ UNCHANGED <<impl, READY, WAKER, queue, running, fut, id, prog, ticks, n,
                   timer, sink, supplied, wakes, sets, resolved, awaits,
                   suspensions, started, lost, clean,
                   ints, halted, epc, cap, io, irq, wlock, vop>>

\* poll_next, first step: TIMER.try_get().expect(..)
PollGet(t) ==
    /\ running = t
    /\ pc[t] = "s_next"
    /\ n[t] < MaxPolls
    /\ pc' = [pc EXCEPT ![t] = IF try_get(once) THEN "s_reg" ELSE "panic"]
    /\ UNCHANGED <<impl, TIMER, READY, WAKER, queue, running, fut, id, prog,
                   ticks, n, timer, sink, supplied, wakes, sets, resolved,
                   awaits, suspensions, started, lost, clean, ext>>

\* poll_next, second step: WAKER.register(&cx.waker())
PollRegister(t) ==
    /\ running = t
    /\ pc[t] = "s_reg"
    /\ WAKER' = register(WAKER, WAKER0, t)
    /\ wakes' = [wakes EXCEPT ![t] = 0]
    /\ lost' = [lost EXCEPT ![t] = FALSE]
    /\ pc' = [pc EXCEPT ![t] = "s_load"]
    /\ UNCHANGED <<impl, TIMER, READY, queue, running, fut, id, prog, ticks, n,
                   timer, sink, supplied, sets, resolved, awaits, suspensions,
                   started, clean, ext>>

\* poll_next, third step: let timer_value = timer.load(Relaxed)
PollLoad(t) ==
    /\ running = t
    /\ pc[t] = "s_load"
    /\ timer' = [timer EXCEPT ![t] = load(TIMER)]
    /\ sets' = [sets EXCEPT ![t] = 0]
    /\ pc' = [pc EXCEPT ![t] = "s_take"]
    /\ UNCHANGED <<impl, TIMER, READY, WAKER, queue, running, fut, id, prog,
                   ticks, n, sink, supplied, wakes, resolved, awaits,
                   suspensions, started, lost, clean, ext>>

\* poll_next, last step: WAKER.take(); Poll::Ready(Some(timer_value)).
\* awaits records the value returned and the number of set_timer calls
\* made before its load.
PollTake(t) ==
    /\ running = t
    /\ pc[t] = "s_take"
    /\ WAKER' = take(WAKER, WAKER0)
    /\ resolved' = [resolved EXCEPT ![t] = <<"Some", timer[t]>>]
    /\ awaits' = [awaits EXCEPT ![t] = Append(@, <<timer[t], Len(supplied) - sets[t]>>)]
    /\ n' = [n EXCEPT ![t] = @ + 1]
    /\ pc' = [pc EXCEPT ![t] = "s_next"]
    /\ UNCHANGED <<impl, TIMER, READY, queue, running, fut, id, prog, ticks,
                   timer, sink, supplied, wakes, sets, suspensions, started,
                   lost, clean, ext>>

\* the task drops its stream and returns
StreamDone(t) ==
    /\ running = t
    /\ pc[t] = "s_next"
    /\ pc' = [pc EXCEPT ![t] = "done"]
    /\ running' = None
    /\ UNCHANGED <<impl, TIMER, READY, WAKER, queue, fut, id, prog, ticks, n,
                   timer, sink, supplied, wakes, sets, resolved, awaits,
                   suspensions, started, lost, clean, ext>>

NextStream ==
    \/ \E c \in 1..MaxTimer : StreamSetTimer(c)
    \/ ExecutorPoll
    \/ \E t \in Tasks : StreamNewTask(t)
    \/ \E t \in Tasks : PollGet(t)
    \/ \E t \in Tasks : PollRegister(t)
    \/ \E t \in Tasks : PollLoad(t)
    \/ \E t \in Tasks : PollTake(t)
    \/ \E t \in Tasks : StreamDone(t)

SpecStream == InitStream /\ [][NextStream]_vars

\* ---------------------------------------------------------------- C31
Last(q) == q[Len(q)]

\* a step of set_timer of timer_.rs
IsSetTimer == supplied' # supplied

\* the tasks whose call of TimerStream::new returned
Created == {t \in Tasks : pc[t] \notin {"new", "body", "panic"}}

C31_Step ==
    /\ (IsSetTimer /\ ~once)
          => /\ TIMER' = TIMER
             /\ WAKER' = WAKER
             /\ queue' = queue
             /\ wakes' = wakes
             /\ wlog'.inputs = Append(wlog.inputs, WARNING)
    /\ \A t \in Tasks :
          (pc[t] = "body" /\ pc'[t] # "body")
             => IF once THEN pc'[t] = "panic" /\ once'
                ELSE pc'[t] = "s_next" /\ once'
    /\ Cardinality(Created) <= 1
    /\ (IsSetTimer /\ once)
          => /\ TIMER' = Last(supplied')
             /\ WAKER'[WAKER0] = None
             /\ wlog' = wlog
             /\ \A t \in Tasks :
                   WAKER[WAKER0] = t
                      => /\ wakes'[t] = wakes[t] + 1
                         /\ Len(queue) < cap => queue' = Append(queue, t)

\* C31: in timer_.rs a set_timer before TimerStream::new has run stores
\* nothing and wakes nothing, it only prints the warning; TimerStream::new
\* succeeds at most once and a second call panics; after new, every
\* set_timer stores its value and invokes the registered waker.
C31_OnceThenStores == [][C31_Step]_vars

\* one warning before new, one task woken by set_timer during its poll
\* after new, and the second call of new panicked
C31_Witness ==
    /\ once
    /\ wlog.inputs = <<WARNING>>
    /\ TIMER = 2
    /\ \E t, u \in Tasks :
          /\ pc[t] = "done" /\ wakes[t] = 1
          /\ pc[u] = "panic"

\* ---------------------------------------------------------------- C32
InPoll(t) == running = t /\ pc[t] \in {"s_reg", "s_load", "s_take"}

\* C32: TimerStream::poll_next never returns Pending or None: every poll
\* returns Ready(Some(v)) with v the value TIMER held when the poll loaded
\* it, and WAKER is empty whenever no poll is in progress; two polls with
\* no set_timer between their loads return the same value.
C32_AlwaysReady ==
    \A t \in Tasks :
        /\ pc[t] # "wait"
        /\ suspensions[t] = 0
        /\ Len(awaits[t]) = n[t]
        /\ n[t] >= 1 => resolved[t] = <<"Some", Last(awaits[t])[1]>>
        /\ (pc[t] = "s_take" /\ sets[t] = 0) => timer[t] = TIMER
        /\ (n[t] >= 1 /\ Last(awaits[t])[2] = Len(supplied))
              => resolved[t][2] = TIMER
        /\ WAKER[WAKER0] # None => \E u \in Tasks : InPoll(u) /\ WAKER[WAKER0] = u
        /\ \A k \in 1..(Len(awaits[t]) - 1) :
              awaits[t][k][2] = awaits[t][k + 1][2]
                 => awaits[t][k][1] = awaits[t][k + 1][1]

\* three polls of one task in a row, the first two with no set_timer in
\* between and both returning 1, the third after set_timer(3)
C32_Witness ==
    \E t \in Tasks :
        /\ awaits[t] = <<<<1, 1>>, <<1, 1>>, <<3, 2>>>>
        /\ supplied = <<1, 3>>
        /\ pc[t] = "s_next"
        /\ WAKER[WAKER0] = None

\* ------------------------------------------------ SpecShared
\* display_timer tasks that were all given the same timer slot
InitShared ==
    /\ InitCommon
    /\ cap = QueueCap
    /\ impl \in {"flag", "parity"}
    /\ prog = [t \in Tasks |-> "loop"]
    /\ ticks = [t \in Tasks |-> 0]
    /\ \E s \in {0, MAX_TIMERS - 1} : id = [t \in Tasks |-> s]
    /\ pc = [t \in Tasks |-> "new"]
    /\ queue = [k \in 1..NumTasks |-> k]

SpecShared == InitShared /\ [][Next]_vars

\* ---------------------------------------------------------------- C33
\* the tasks whose waker a step invoked
Woken == {t \in Tasks : wakes'[t] > wakes[t]}

C33_Step ==
    /\ \A t \in Tasks :
          (pc[t] = "reg" /\ pc'[t] = "read")
             => /\ WAKER'[id[t]] = t
                /\ \A s \in Slots : s # id[t] => WAKER'[s] = WAKER[s]
    /\ IsSetTimer
          => /\ Woken = {t \in Tasks : WAKER[id[t]] = t}
             /\ Cardinality(Woken) <= 1
             /\ \A t \in Woken : wakes'[t] = wakes[t] + 1

\* C33: WAKER[id] holds at most one waker: when two tasks poll Timer futures
\* with the same slot id, the later registration replaces the earlier one,
\* and the next set_timer wakes only the task that registered last.
C33_LastRegistrationWins == [][C33_Step]_vars

\* two tasks suspended on the same slot, the second registered last; one
\* set_timer later the second has been woken and the first has not
C33_Witness ==
    /\ Len(supplied) = 1
    /\ pc[1] = "wait" /\ sets[1] = 1 /\ wakes[1] = 0
    /\ pc[2] = "wait" /\ sets[2] = 1 /\ wakes[2] = 1
    /\ id[1] = id[2]
    /\ WAKER[id[1]] = None

\* ------------------------------------------------ SpecBoth
\* The flag-based Timer (task/timer.rs) and the parity-based Timer
\* (task/timer/mod.rs) side by side: one caller polls Timer::Tick(id) and
\* Timer::Tock(id) in any order, set_timer is called with the counters
\* 1, 2, 3, ... and both implementations see the same calls at the same
\* points. TIMER and WAKER are the same in both; READY is the flag
\* implementation's. resolved[1] is the pair of results of the poll, the
\* flag implementation's first.
Caller == 1

Pending == <<"Pending">>
Loading == <<"Loading">>
Ready(v) == <<"Ready", v>>

InitBoth ==
    /\ InitCommon
    /\ cap = QueueCap
    /\ impl = "both"
    /\ prog = [t \in Tasks |-> "none"]
    /\ ticks = [t \in Tasks |-> 0]
    /\ \E s \in {0, MAX_TIMERS - 1} : id = [t \in Tasks |-> s]
    /\ pc = [t \in Tasks |-> IF t = Caller THEN "body" ELSE "done"]
    /\ queue = <<>>

\* set_timer of both files with the next counter
BothSetTimer ==
    /\ TIMER < MaxTimer
    /\ LET c == TIMER + 1
           r == wake_all(0, WAKER, queue, <<>>)
       IN  /\ TIMER' = store(TIMER, c)
           /\ READY' = set_ready(READY, c % 2)
           /\ WAKER' = r[1]
           /\ queue' = r[2]
           /\ wakes' = [t \in Tasks |-> wakes[t] + Count(r[3], t)]
           /\ supplied' = Append(supplied, c)
    /\ UNCHANGED <<impl, running, pc, fut, id, prog, ticks, n, timer, sink,
                   sets, resolved, awaits, suspensions, started, lost, clean,
                   ext>>

\* the caller polls Timer::Tick(id) or Timer::Tock(id)
BothPoll(tag) ==
    /\ pc[Caller] = "body"
    /\ n[Caller] < MaxPolls
    /\ fut' = [fut EXCEPT ![Caller] = tag]
    /\ pc' = [pc EXCEPT ![Caller] = "reg"]
    /\ UNCHANGED <<impl, TIMER, READY, WAKER, queue, running, id, prog, ticks,
                   n, timer, sink, supplied, wakes, sets, resolved, awaits,
                   suspensions, started, lost, clean, ext>>

\* WAKER[id].register(waker) of both
BothRegister ==
    /\ pc[Caller] = "reg"
    /\ WAKER' = register(WAKER, get_id(fut[Caller], id[Caller])[2], Caller)
    /\ wakes' = [wakes EXCEPT ![Caller] = 0]
    /\ pc' = [pc EXCEPT ![Caller] = "read"]
    /\ UNCHANGED <<impl, TIMER, READY, queue, running, fut, id, prog, ticks, n,
                   timer, sink, supplied, sets, resolved, awaits, suspensions,
                   started, lost, clean, ext>>

\* the readiness read: READY[t].load() in the one, tick == clock in the
\* other; a poll that is Pending in both ends here
BothIsReady ==
    /\ pc[Caller] = "read"
    /\ LET rf == is_ready("flag", fut[Caller], id[Caller], READY, TIMER)
           rp == is_ready("parity", fut[Caller], id[Caller], READY, TIMER)
       IN  /\ resolved' = [resolved EXCEPT ![Caller] =
                              <<IF rf THEN Loading ELSE Pending,
                                IF rp THEN Loading ELSE Pending>>]
           /\ IF rf \/ rp
              THEN /\ pc' = [pc EXCEPT ![Caller] = "load"]
                   /\ UNCHANGED n
              ELSE /\ pc' = [pc EXCEPT ![Caller] = "body"]
                   /\ n' = [n EXCEPT ![Caller] = @ + 1]
    /\ UNCHANGED <<impl, TIMER, READY, WAKER, queue, running, fut, id, prog,
                   ticks, timer, sink, supplied, wakes, sets, awaits,
                   suspensions, started, lost, clean, ext>>

\* Poll::Ready(TIMER.load()) where the poll is ready
BothLoad ==
    /\ pc[Caller] = "load"
    /\ resolved' = [resolved EXCEPT ![Caller] =
                       [k \in 1..2 |-> IF resolved[Caller][k] = Loading
                                       THEN Ready(load(TIMER)) ELSE Pending]]
    /\ pc' = [pc EXCEPT ![Caller] = "body"]
    /\ n' = [n EXCEPT ![Caller] = @ + 1]
    /\ UNCHANGED <<impl, TIMER, READY, WAKER, queue, running, fut, id, prog,
                   ticks, timer, sink, supplied, wakes, sets, awaits,
                   suspensions, started, lost, clean, ext>>

NextBoth ==
    \/ BothSetTimer
    \/ \E tag \in {"Tick", "Tock"} : BothPoll(tag)
    \/ BothRegister
    \/ BothIsReady
    \/ BothLoad

SpecBoth == InitBoth /\ [][NextBoth]_vars

\* ---------------------------------------------------------------- C34
\* C34: the flag-based and the parity-based Timer are observationally
\* equivalent: for every sequence of set_timer calls with the counters
\* 1, 2, 3, ... and every interleaving of polls of Tick(id) and Tock(id),
\* polls before the first set_timer call included, both return the same
\* Poll result.
C34_SamePollResult ==
    (pc[Caller] = "body" /\ n[Caller] >= 1)
        => resolved[Caller][1] = resolved[Caller][2]

\* ------------------------------------------------ SpecAttr
\* text::set_attribute(Attribute::new(fg, bg)) for every pair of colours;
\* wlog.inputs holds the pair of the last call
Colors == 0..15

\* Writer::set_attribute
set_attribute(w, at) == [w EXCEPT !.attr = at]

SetAttribute(fg, bg) ==
    /\ writer' = set_attribute(writer, Attribute(fg, bg))
    /\ wlog' = [wlog EXCEPT !.inputs = <<<<fg, bg>>>>]
    /\ UNCHANGED <<kernel, build, pit>>

NextAttr == \E fg \in Colors, bg \in Colors : SetAttribute(fg, bg)

SpecAttr == InitVga /\ [][NextAttr]_vars

\* ---------------------------------------------------------------- C35
\* C35: Attribute packing round-trips: for all 16 x 16 colour pairs
\* (fg, bg), Attribute::new(fg, bg).foreground() is fg and
\* Attribute::new(fg, bg).background() is bg.
C35_RoundTrip ==
    wlog.inputs # <<>>
        => /\ foreground(writer.attr) = wlog.inputs[1][1]
           /\ background(writer.attr) = wlog.inputs[1][2]

====
